---- MODULE Spec2Model ----
(***************************************************************************)
(* Inventory ledger, purchase-order workflow and identifier generation of  *)
(* the inventory management backend (backend/api/models, backend/api/     *)
(* services).  The state is the committed content of the database tables;  *)
(* every action is one call of a model or service method, with all the     *)
(* commits the method makes.                                               *)
(***************************************************************************)
EXTENDS Integers, Sequences, FiniteSets, TLC

VARIABLES
    items,          \* inventory_items: id -> [quantity, reorder_level, is_active]
    users,          \* users: id -> [role, is_active]
    audit,          \* audit_logs, in insertion order
    notifications,  \* notifications, in insertion order
    po,             \* the purchase order: [id, status, total_amount, approved_by,
                    \*   approved_at, created_by]
    po_items,       \* purchase_order_items of the order, in insertion order:
                    \*   [id, inventory_item_id, quantity, unit_price], prices in cents
    purchase_orders,\* purchase_orders rows [po_number, created_at], in insertion order
    suppliers,      \* suppliers rows [supplier_code, created_at], in insertion order
    held,           \* per request: the objects constructed and not yet committed
    issued,         \* how many identifiers the constructors have drawn
    clock,          \* the time, in months since January 2024
    last            \* the last call and how it ended

seqVars == <<purchase_orders, suppliers, held, issued>>

vars == <<items, users, audit, notifications, po, po_items,
          purchase_orders, suppliers, held, issued, clock, last>>

-----------------------------------------------------------------------------
(* Bounds *)

\* inventory items in the ledger specification
NumItems == 2
\* largest stock quantity and largest requested quantity
MaxQty == 2
\* audit entries written before the ledger stops accepting stock movements
MaxAudit == 2

\* purchase-order specification: inventory items, line items of the order,
\* largest line quantity
NumInv == 3
MaxLines == 3
MaxLineQty == 1

\* notification specification: rows of the notifications table, and how far
\* the clock moves on
MaxNotifications == 2
MaxTicks == 2

\* identifier specification: concurrent requests, objects a request holds
\* before it commits, purchase orders the month starts with, identifiers drawn
NumRequests == 2
MaxHeld == 2
MaxExisting == 6
MaxIssued == 3

\* clock values: months since January 2024
Clock(year, month) == (year - 2024) * 12 + (month - 1)
Year(t) == 2024 + (t \div 12)
Month(t) == (t % 12) + 1
March2024 == Clock(2024, 3)
December2024 == Clock(2024, 12)

\* InventoryItem.reorder_level column default
DefaultReorderLevel == 10

ItemIds == 1..NumItems
\* the ids callers pass: 0 is the id of no inventory item
ItemInputs == 0..NumItems
QtyInputs == 0..MaxQty
\* a column holding no value
NULL == 0 - 1

-----------------------------------------------------------------------------
(* str() of an integer, as Python prints it *)

Digit == <<"0", "1", "2", "3", "4", "5", "6", "7", "8", "9">>

RECURSIVE StrNat(_)
StrNat(n) ==
    IF n < 10 THEN Digit[n + 1] ELSE StrNat(n \div 10) \o Digit[(n % 10) + 1]

Str(n) == IF n < 0 THEN "-" \o StrNat(0 - n) ELSE StrNat(n)

-----------------------------------------------------------------------------
(* Rows *)

AuditLog(user_id, action, table_name, record_id, old_value, new_value) ==
    [user_id |-> user_id, action |-> action, table_name |-> table_name,
     record_id |-> record_id, old_value |-> old_value, new_value |-> new_value]

\* a row of notifications as the constructor leaves it: unread, no expiry
Notification(user_id, title, type) ==
    [user_id |-> user_id, title |-> title, type |-> type,
     is_read |-> FALSE, read_at |-> NULL, expires_at |-> NULL]

\* what the caller of a method sees: the method called and how it ended
Call(op, result) == [op |-> op, result |-> result]

UserIds == DOMAIN users
\* utils.decorators lets only active users call
Actors == {u \in UserIds : users[u].is_active}

-----------------------------------------------------------------------------
(* InventoryItem.add_stock / remove_stock.  db is [items, audit]; the       *)
(* result is the database after the method's commit, or db itself with ok   *)
(* FALSE when the method raised before changing anything.                   *)

Raise(db, err) == [ok |-> FALSE, err |-> err, items |-> db.items, audit |-> db.audit]

add_stock(db, i, quantity, user_id) ==
    IF quantity <= 0 THEN Raise(db, "ValidationError")
    ELSE LET new == db.items[i].quantity + quantity
         IN  [ok |-> TRUE, err |-> "ok",
              items |-> [db.items EXCEPT ![i].quantity = new],
              audit |-> Append(db.audit,
                          AuditLog(user_id, "add_stock", "inventory_items", i,
                                   Str(new - quantity), Str(new)))]

\* remove_stock without the stock check
remove_stock_unchecked(db, i, quantity, user_id) ==
    IF quantity <= 0 THEN Raise(db, "ValidationError")
    ELSE LET new == db.items[i].quantity - quantity
         IN  [ok |-> TRUE, err |-> "ok",
              items |-> [db.items EXCEPT ![i].quantity = new],
              audit |-> Append(db.audit,
                          AuditLog(user_id, "remove_stock", "inventory_items", i,
                                   Str(new + quantity), Str(new)))]

remove_stock(db, i, quantity, user_id) ==
    IF quantity <= 0 THEN Raise(db, "ValidationError")
    ELSE IF db.items[i].quantity < quantity THEN Raise(db, "InsufficientStock")
    ELSE LET new == db.items[i].quantity - quantity
         IN  [ok |-> TRUE, err |-> "ok",
              items |-> [db.items EXCEPT ![i].quantity = new],
              audit |-> Append(db.audit,
                          AuditLog(user_id, "remove_stock", "inventory_items", i,
                                   Str(new + quantity), Str(new)))]

\* validate_numeric_range that takes the value just below min_value as well
validate_numeric_range_from_below(value, min_value) == ~(value < min_value - 1)

\* utils.helpers.validate_numeric_range, on an integer value
validate_numeric_range(value, min_value) == ~(value < min_value)

\* Notification.create_low_stock_notification: one row per admin or manager
RECURSIVE create_low_stock_notification(_, _)
create_low_stock_notification(ns, ids) ==
    IF ids = {} THEN ns
    ELSE LET u == CHOOSE x \in ids : \A y \in ids : x <= y
         IN  create_low_stock_notification(
                 IF users[u].role \in {"admin", "manager"}
                 THEN Append(ns, Notification(u, "Low Stock Alert", "warning"))
                 ELSE ns,
                 ids \ {u})

-----------------------------------------------------------------------------
(* InventoryItem.status *)

\* status that calls an item low only below its reorder level
status_below_level(quantity, reorder_level) ==
    IF quantity <= 0 THEN "out_of_stock"
    ELSE IF quantity < reorder_level THEN "low_stock"
    ELSE "in_stock"

status(quantity, reorder_level) ==
    IF quantity <= 0 THEN "out_of_stock"
    ELSE IF quantity <= reorder_level THEN "low_stock"
    ELSE "in_stock"

\* InventoryItem.needs_reorder
needs_reorder(quantity, reorder_level) == quantity <= reorder_level

-----------------------------------------------------------------------------
(* InventoryService.add_stock / remove_stock *)

DB == [items |-> items, audit |-> audit]

\* the test of add_stock that tells the stock was already above the level
\* after the call, whatever it was before
stock_restored_whenever_above(item_quantity, quantity, reorder_level) ==
    item_quantity > reorder_level

\* the test of remove_stock that misses a quantity equal to the level
now_low_strictly(item_quantity, reorder_level) == item_quantity < reorder_level

\* the test of remove_stock for the low-stock notifications
now_low(item_quantity, reorder_level) == item_quantity <= reorder_level

\* the test of add_stock for the "Stock Restored" notification: item_quantity
\* is the quantity after the addition of quantity
stock_restored(item_quantity, quantity, reorder_level) ==
    item_quantity > reorder_level /\ item_quantity - quantity <= reorder_level

InventoryService_add_stock(i, quantity, user_id) ==
    /\ UNCHANGED <<users, po, po_items, seqVars, clock>>
    /\ IF i \notin DOMAIN items
       THEN /\ last' = Call("add_stock", "NotFound")
            /\ UNCHANGED <<items, audit, notifications>>
       ELSE IF ~validate_numeric_range(quantity, 1)
       THEN /\ last' = Call("add_stock", "ValidationError")
            /\ UNCHANGED <<items, audit, notifications>>
       ELSE LET r == add_stock(DB, i, quantity, user_id)
            IN  /\ r.ok => /\ Len(audit) < MaxAudit
                           /\ r.items[i].quantity <= MaxQty
                /\ items' = r.items
                /\ audit' = r.audit
                /\ last' = Call("add_stock", r.err)
                /\ notifications' =
                      IF /\ r.ok
                         /\ stock_restored(r.items[i].quantity, quantity,
                                           r.items[i].reorder_level)
                      THEN Append(notifications,
                                  Notification(user_id, "Stock Restored", "success"))
                      ELSE notifications

InventoryService_remove_stock(i, quantity, user_id) ==
    /\ UNCHANGED <<users, po, po_items, seqVars, clock>>
    /\ IF i \notin DOMAIN items
       THEN /\ last' = Call("remove_stock", "NotFound")
            /\ UNCHANGED <<items, audit, notifications>>
       ELSE IF ~validate_numeric_range(quantity, 1)
       THEN /\ last' = Call("remove_stock", "ValidationError")
            /\ UNCHANGED <<items, audit, notifications>>
       ELSE LET r == remove_stock(DB, i, quantity, user_id)
            IN  /\ r.ok => Len(audit) < MaxAudit
                /\ items' = r.items
                /\ audit' = r.audit
                /\ last' = Call("remove_stock", r.err)
                /\ notifications' =
                      IF r.ok /\ now_low(r.items[i].quantity, r.items[i].reorder_level)
                      THEN create_low_stock_notification(notifications, UserIds)
                      ELSE notifications

-----------------------------------------------------------------------------
(* The ledger specification *)

InitUsers ==
    <<[role |-> "admin", is_active |-> TRUE],
      [role |-> "manager", is_active |-> FALSE],
      [role |-> "staff", is_active |-> TRUE]>>

NoOrder == [id |-> NULL, status |-> "none", total_amount |-> 0, approved_by |-> NULL,
            approved_at |-> NULL, created_by |-> NULL]

Init ==
    /\ items = [i \in ItemIds |->
                  [quantity |-> 0,
                   reorder_level |-> IF i = 1 THEN 0 ELSE DefaultReorderLevel,
                   is_active |-> TRUE]]
    /\ users = InitUsers
    /\ audit = <<>>
    /\ notifications = <<>>
    /\ po = NoOrder
    /\ po_items = <<>>
    /\ purchase_orders = <<>>
    /\ suppliers = <<>>
    /\ held = <<>>
    /\ issued = 0
    /\ clock = March2024
    /\ last = Call("none", "ok")

AddStock ==
    \E i \in ItemInputs, q \in QtyInputs, u \in Actors :
        InventoryService_add_stock(i, q, u)

RemoveStock ==
    \E i \in ItemInputs, q \in QtyInputs, u \in Actors :
        InventoryService_remove_stock(i, q, u)

Next == AddStock \/ RemoveStock

Spec == Init /\ [][Next]_vars

-----------------------------------------------------------------------------
(* Claims on the ledger *)

C1_NonNegative == \A i \in DOMAIN items : items[i].quantity >= 0

\* C1: over every sequence of addStock/removeStock calls no item's quantity is
\* negative, and a removeStock that asks for more than the current quantity
\* ends with InsufficientStock and leaves the quantities and the audit trail
\* as they were.
C1_Ledger ==
    /\ []C1_NonNegative
    /\ [][\A i \in ItemIds, q \in QtyInputs, u \in Actors :
            (InventoryService_remove_stock(i, q, u) /\ q > items[i].quantity)
                => /\ last'.result = "InsufficientStock"
                   /\ items' = items
                   /\ audit' = audit]_vars

\* a removal beyond the stock was refused after stock had been added
C1_Witness ==
    /\ last = Call("remove_stock", "InsufficientStock")
    /\ \E i \in ItemIds : items[i].quantity > 0

\* C21: add_stock creates exactly one "Stock Restored" notification, for the
\* acting user (the user of the audit entry the call wrote), if and only if the call succeeds with the quantity at or below
\* the reorder level before it and above the level after it, and otherwise
\* creates none; quantity 5 at reorder level 10 plus 20 gives 25, in_stock
\* and the notification.
C21_StockRestored ==
    [][/\ (last'.op = "add_stock") =>
             IF /\ last'.result = "ok"
                /\ \E i \in ItemIds :
                      /\ items[i].quantity <= items[i].reorder_level
                      /\ items'[i].quantity > items[i].reorder_level
             THEN notifications' =
                      Append(notifications,
                             Notification(audit'[Len(audit')].user_id,
                                          "Stock Restored", "success"))
             ELSE notifications' = notifications
       /\ \A before \in QtyInputs, q \in 1..MaxQty, level \in QtyInputs :
             stock_restored(before + q, q, level)
                 <=> (before <= level /\ before + q > level)
       /\ stock_restored(5 + 20, 20, DefaultReorderLevel)
       /\ status(5, DefaultReorderLevel) = "low_stock"
       /\ status(5 + 20, DefaultReorderLevel) = "in_stock"]_vars

\* an addition has lifted an item over its reorder level and told the actor
C21_Witness ==
    /\ last = Call("add_stock", "ok")
    /\ notifications # <<>>
    /\ notifications[Len(notifications)].title = "Stock Restored"
    /\ \E i \in ItemIds : items[i].quantity > items[i].reorder_level

\* the users holding an inventory-management role
Managers == {u \in UserIds : users[u].role \in {"admin", "manager"}}

\* the notifications past the first n that are low-stock alerts for user u
Alerts(ns, n, u) ==
    {k \in (n + 1)..Len(ns) : ns[k].user_id = u /\ ns[k].title = "Low Stock Alert"}

\* C22: a successful remove_stock creates low-stock notifications if and only
\* if the quantity it leaves is at or below the reorder level, and then
\* exactly one for each user holding an inventory-management role.
C22_LowStockAlert ==
    [][(last'.op = "remove_stock") =>
              IF /\ last'.result = "ok"
                 /\ items'[audit'[Len(audit')].record_id].quantity
                        <= items[audit'[Len(audit')].record_id].reorder_level
              THEN /\ Len(notifications') = Len(notifications) + Cardinality(Managers)
                   /\ SubSeq(notifications', 1, Len(notifications)) = notifications
                   /\ \A m \in Managers :
                          Cardinality(Alerts(notifications', Len(notifications), m)) = 1
              ELSE notifications' = notifications]_vars

\* a removal has left an item low and the alerts are there
C22_Witness ==
    /\ last = Call("remove_stock", "ok")
    /\ notifications # <<>>
    /\ notifications[Len(notifications)].title = "Low Stock Alert"

\* C33: add_stock and remove_stock with a requested quantity of 0 or less end
\* with a validation error before anything is changed: the quantities of the
\* items, the audit trail and the notifications are as they were.
C33_NonPositiveRejected ==
    /\ [][\A i \in ItemIds, u \in Actors :
            (InventoryService_add_stock(i, 0, u) \/ InventoryService_remove_stock(i, 0, u))
                => /\ last'.result = "ValidationError"
                   /\ UNCHANGED <<items, audit, notifications>>]_vars
    /\ [](\A quantity \in (0 - MaxQty)..0, i \in ItemIds, u \in Actors :
            /\ ~validate_numeric_range(quantity, 1)
            /\ add_stock(DB, i, quantity, u) = Raise(DB, "ValidationError")
            /\ remove_stock(DB, i, quantity, u) = Raise(DB, "ValidationError"))

\* a removal of quantity 0 was refused on a ledger that has entries and stock
C33_Witness ==
    /\ last = Call("remove_stock", "ValidationError")
    /\ audit # <<>>
    /\ \E i \in ItemIds : items[i].quantity > 0

\* what the rule gives for a quantity that is not negative
DerivedStatus(quantity, reorder_level) ==
    CASE quantity = 0 -> "out_of_stock"
      [] 0 < quantity /\ quantity <= reorder_level -> "low_stock"
      [] OTHER -> "in_stock"

\* C30: the status of an item is out_of_stock exactly when its quantity is 0,
\* low_stock when the quantity is above 0 and at most the reorder level, and
\* in_stock otherwise, for every quantity from 0 up and every reorder level;
\* it is computed from the quantity and the level the item has now.
C30_DerivedStatus ==
    /\ \A i \in ItemIds :
          status(items[i].quantity, items[i].reorder_level)
              = DerivedStatus(items[i].quantity, items[i].reorder_level)
    /\ \A quantity \in 0..(MaxQty + 1), reorder_level \in (0 - 1)..(MaxQty + 1) :
          /\ status(quantity, reorder_level) = DerivedStatus(quantity, reorder_level)
          /\ status(quantity, reorder_level) = "out_of_stock" <=> quantity = 0

\* after a removal one item is out of stock, at its reorder level 0, and the
\* other is low
C30_Witness ==
    /\ last = Call("remove_stock", "ok")
    /\ \E i, j \in ItemIds :
          /\ items[i].quantity = 0 /\ items[i].reorder_level = 0
          /\ status(items[i].quantity, items[i].reorder_level) = "out_of_stock"
          /\ status(items[j].quantity, items[j].reorder_level) = "low_stock"

\* C23: the users a low-stock alert goes to are exactly the users who are
\* active and are admin or manager: every notification with that title is for
\* such a user, and after a removal that raised the alert each of them has one.
C23_ActiveRecipients ==
    [][(last'.op = "remove_stock" /\ notifications' # notifications)
              => \A x \in UserIds :
                     (Alerts(notifications', Len(notifications), x) # {})
                         <=> (users[x].is_active
                                /\ users[x].role \in {"admin", "manager"})]_vars

-----------------------------------------------------------------------------
(* PurchaseOrder: guards *)

\* can_approve that lets a rejected order be approved again
can_approve_or_rejected == po.status \in {"pending", "rejected"}

can_approve == po.status = "pending"

\* can_reject that only refuses an order already rejected
can_reject_unless_rejected == po.status # "rejected"

can_reject == po.status = "pending"

can_cancel == po.status \in {"pending", "approved"}

-----------------------------------------------------------------------------
(* PurchaseOrder.approve / reject *)

\* approve that stamps the order's number as it approves
approve_renumbering(approved_by_user_id) ==
    /\ UNCHANGED <<items, users, po_items, seqVars, clock>>
    /\ IF ~can_approve
       THEN /\ last' = Call("approve", "InvalidTransition")
            /\ UNCHANGED <<po, audit, notifications>>
       ELSE /\ po' = [po EXCEPT !.status = "approved",
                                !.approved_by = approved_by_user_id,
                                !.approved_at = clock,
                                !.po_number = @ \o "-A"]
            /\ audit' = Append(audit,
                          AuditLog(approved_by_user_id, "approve_po", "purchase_orders",
                                   po.id, "pending", "approved"))
            /\ notifications' = Append(notifications,
                          Notification(po.created_by, "Purchase Order Approved", "info"))
            /\ last' = Call("approve", "ok")

approve(approved_by_user_id) ==
    /\ UNCHANGED <<items, users, po_items, seqVars, clock>>
    /\ IF ~can_approve
       THEN /\ last' = Call("approve", "InvalidTransition")
            /\ UNCHANGED <<po, audit, notifications>>
       ELSE /\ po' = [po EXCEPT !.status = "approved",
                                !.approved_by = approved_by_user_id,
                                !.approved_at = clock]
            /\ audit' = Append(audit,
                          AuditLog(approved_by_user_id, "approve_po", "purchase_orders",
                                   po.id, "pending", "approved"))
            /\ notifications' = Append(notifications,
                          Notification(po.created_by, "Purchase Order Approved", "info"))
            /\ last' = Call("approve", "ok")

reject(rejected_by_user_id) ==
    /\ UNCHANGED <<items, users, po_items, seqVars, clock>>
    /\ IF ~can_reject
       THEN /\ last' = Call("reject", "InvalidTransition")
            /\ UNCHANGED <<po, audit, notifications>>
       ELSE /\ po' = [po EXCEPT !.status = "rejected"]
            /\ audit' = Append(audit,
                          AuditLog(rejected_by_user_id, "reject_po", "purchase_orders",
                                   po.id, "pending", "rejected"))
            /\ notifications' = Append(notifications,
                          Notification(po.created_by, "Purchase Order Rejected", "warning"))
            /\ last' = Call("reject", "ok")

-----------------------------------------------------------------------------
(* PurchaseOrder.mark_delivered.  The loop calls add_stock for the lines in  *)
(* insertion order; every add_stock commits the session, and with it the     *)
(* status the method has already set.  commits counts the commits made.      *)

RECURSIVE deliver_items(_, _, _, _)
deliver_items(db, lines, user_id, commits) ==
    IF lines = <<>>
    THEN [ok |-> TRUE, err |-> "ok", items |-> db.items, audit |-> db.audit,
          commits |-> commits]
    ELSE LET item == Head(lines)
         IN  IF item.inventory_item_id \notin DOMAIN db.items
             THEN deliver_items(db, Tail(lines), user_id, commits)
             ELSE LET r == add_stock(db, item.inventory_item_id, item.quantity, user_id)
                  IN  IF ~r.ok
                      THEN [ok |-> FALSE, err |-> r.err, items |-> db.items,
                            audit |-> db.audit, commits |-> commits]
                      ELSE deliver_items([items |-> r.items, audit |-> r.audit],
                                         Tail(lines), user_id, commits + 1)

\* mark_delivered that adds its audit entry before the loop, so that the
\* first commit of the loop writes it
mark_delivered_audit_first(delivered_by_user_id) ==
    /\ UNCHANGED <<users, po_items, seqVars, clock, notifications>>
    /\ IF po.status # "approved"
       THEN /\ last' = Call("mark_delivered", "InvalidTransition")
            /\ UNCHANGED <<po, items, audit>>
       ELSE LET entry == AuditLog(delivered_by_user_id, "deliver_po",
                                  "purchase_orders", po.id, "approved", "delivered")
                r == deliver_items([items |-> items, audit |-> Append(audit, entry)],
                                   po_items, delivered_by_user_id, 0)
            IN  /\ items' = r.items
                /\ last' = Call("mark_delivered", r.err)
                /\ po' = [po EXCEPT !.status =
                             IF r.ok \/ r.commits > 0 THEN "delivered" ELSE "approved"]
                /\ audit' = IF r.ok \/ r.commits > 0 THEN r.audit ELSE audit

\* mark_delivered that takes a pending order as well
mark_delivered_or_pending(delivered_by_user_id) ==
    /\ UNCHANGED <<users, po_items, seqVars, clock, notifications>>
    /\ IF po.status \notin {"approved", "pending"}
       THEN /\ last' = Call("mark_delivered", "InvalidTransition")
            /\ UNCHANGED <<po, items, audit>>
       ELSE LET r == deliver_items(DB, po_items, delivered_by_user_id, 0)
            IN  /\ items' = r.items
                /\ last' = Call("mark_delivered", r.err)
                /\ po' = [po EXCEPT !.status =
                             IF r.ok \/ r.commits > 0 THEN "delivered" ELSE po.status]
                /\ audit' = IF r.ok
                            THEN Append(r.audit,
                                   AuditLog(delivered_by_user_id, "deliver_po",
                                            "purchase_orders", po.id, po.status, "delivered"))
                            ELSE r.audit

mark_delivered(delivered_by_user_id) ==
    /\ UNCHANGED <<users, po_items, seqVars, clock, notifications>>
    /\ IF po.status # "approved"
       THEN /\ last' = Call("mark_delivered", "InvalidTransition")
            /\ UNCHANGED <<po, items, audit>>
       ELSE LET r == deliver_items(DB, po_items, delivered_by_user_id, 0)
            IN  /\ items' = r.items
                /\ last' = Call("mark_delivered", r.err)
                /\ IF r.ok
                   THEN /\ po' = [po EXCEPT !.status = "delivered"]
                        /\ audit' = Append(r.audit,
                              AuditLog(delivered_by_user_id, "deliver_po",
                                       "purchase_orders", po.id, "approved", "delivered"))
                   \* an add_stock raised: what the earlier commits wrote stays,
                   \* the rest of the session is dropped with the request
                   ELSE /\ po' = [po EXCEPT !.status =
                                     IF r.commits > 0 THEN "delivered" ELSE "approved"]
                        /\ audit' = r.audit

\* PurchaseOrder defines can_cancel and no method that cancels: a cancel call
\* finds no such method
cancel(user_id) ==
    /\ last' = Call("cancel", "AttributeError")
    /\ UNCHANGED <<items, users, audit, notifications, po, po_items, seqVars, clock>>

-----------------------------------------------------------------------------
(* The purchase-order specification: one pending order whose lines were      *)
(* added with add_item, over inventory items of which at most one has been   *)
(* deactivated.                                                              *)

InvIds == 1..NumInv
LineQtys == 0..MaxLineQty

PurchaseOrderItem(id, inventory_item_id, quantity, unit_price) ==
    [id |-> id, inventory_item_id |-> inventory_item_id, quantity |-> quantity,
     unit_price |-> unit_price]

\* PurchaseOrderItem.total_price, in cents
total_price(item) == item.quantity * item.unit_price

\* calculate_total that adds up the quantities and forgets the unit prices
RECURSIVE calculate_total_of_quantities(_)
calculate_total_of_quantities(lines) ==
    IF lines = <<>> THEN 0
    ELSE Head(lines).quantity + calculate_total_of_quantities(Tail(lines))

\* PurchaseOrder.calculate_total: the sum over the lines the query returns
RECURSIVE calculate_total(_)
calculate_total(lines) ==
    IF lines = <<>> THEN 0
    ELSE total_price(Head(lines)) + calculate_total(Tail(lines))

\* the line collections add_item can build: no two lines for one inventory
\* item, every line at one cent the unit
OrderLines ==
    UNION {{[k \in 1..n |-> PurchaseOrderItem(k, inv[k], qty[k], 1)] :
               inv \in {f \in [1..n -> InvIds] :
                           \A a, b \in 1..n : a # b => f[a] # f[b]},
               qty \in [1..n -> LineQtys]} : n \in 0..MaxLines}

InitPO ==
    /\ \E off \in 0..NumInv :
          items = [i \in InvIds |->
                     [quantity |-> i, reorder_level |-> DefaultReorderLevel,
                      is_active |-> i # off]]
    /\ users = InitUsers
    /\ audit = <<>>
    /\ notifications = <<>>
    /\ po_items \in OrderLines
    /\ po = [id |-> 1, status |-> "pending", total_amount |-> calculate_total(po_items),
             approved_by |-> NULL, approved_at |-> NULL, created_by |-> 3]
    /\ purchase_orders = <<>>
    /\ suppliers = <<>>
    /\ held = <<>>
    /\ issued = 0
    /\ clock = March2024
    /\ last = Call("none", "ok")

Approve == \E u \in Actors : approve(u)

Reject == \E u \in Actors : reject(u)

Cancel == \E u \in Actors : cancel(u)

Deliver == \E u \in Actors : mark_delivered(u)

NextPO == Approve \/ Reject \/ Cancel \/ Deliver

SpecPO == InitPO /\ [][NextPO]_vars

-----------------------------------------------------------------------------
(* Claims on the purchase-order workflow *)

Quantities(its) == [i \in DOMAIN its |-> its[i].quantity]

\* C2: delivery is all-or-nothing: when the add_stock of a line fails during
\* mark_delivered, the order's stored status stays approved and no inventory
\* item's quantity has changed.
C2_DeliveryAllOrNothing ==
    [][\A u \in Actors :
          (mark_delivered(u) /\ po.status = "approved" /\ last'.result # "ok")
              => /\ po'.status = "approved"
                 /\ Quantities(items') = Quantities(items)]_vars

\* C3: delivering an approved order of three lines (each of a positive
\* quantity) whose second line refers to a deactivated inventory item fails,
\* keeps the quantities of the three items and leaves the order approved.
C3_DeactivatedLineAborts ==
    [][\A u \in Actors :
          (/\ mark_delivered(u)
           /\ po.status = "approved"
           /\ Len(po_items) = 3
           /\ \A k \in 1..3 : po_items[k].quantity > 0
           /\ ~items[po_items[2].inventory_item_id].is_active)
              => /\ last'.result # "ok"
                 /\ po'.status = "approved"
                 /\ Quantities(items') = Quantities(items)]_vars

\* C7: an order becomes delivered only from approved, and mark_delivered on an
\* order of any other status ends with InvalidTransition and leaves the order
\* and the quantities of the inventory items as they were.
C7_DeliveredOnlyFromApproved ==
    [][/\ (po'.status = "delivered" /\ po.status # "delivered")
              => po.status = "approved"
       /\ \A u \in Actors :
              (mark_delivered(u) /\ po.status # "approved")
                  => /\ last'.result = "InvalidTransition"
                     /\ po' = po
                     /\ Quantities(items') = Quantities(items)]_vars

\* a delivery of a pending order that has lines was refused
C7_Witness ==
    /\ last = Call("mark_delivered", "InvalidTransition")
    /\ po.status = "pending"
    /\ \E k \in DOMAIN po_items : po_items[k].quantity > 0

\* C8: approve and reject succeed only on a pending order; on any other status
\* they end with InvalidTransition and leave status, approved_by, approved_at,
\* the audit trail and the notifications as they were.  A successful approve
\* sets status approved together with approved_by and approved_at.
C8_ApproveRejectGuard ==
    [][\A u \in Actors :
          /\ ((approve(u) \/ reject(u)) /\ po.status # "pending")
                => /\ last'.result = "InvalidTransition"
                   /\ po' = po
                   /\ audit' = audit
                   /\ notifications' = notifications
          /\ (approve(u) /\ po.status = "pending")
                => /\ last'.result = "ok"
                   /\ po'.status = "approved"
                   /\ po'.approved_by = u
                   /\ po'.approved_at # NULL
          /\ (reject(u) /\ po.status = "pending")
                => /\ last'.result = "ok"
                   /\ po'.status = "rejected"]_vars

\* an approve was refused on an order somebody had already approved
C8_Witness ==
    /\ last = Call("approve", "InvalidTransition")
    /\ po.status = "approved"
    /\ po.approved_by \in Actors
    /\ po.approved_at # NULL

\* C9: rejected, delivered and cancelled are terminal: no approve, reject,
\* cancel or mark_delivered call changes the status of an order that has one
\* of them.
C9_TerminalStatuses ==
    [][po.status \in {"rejected", "delivered", "cancelled"}
          => po'.status = po.status]_vars

\* a call was made on a delivered order and refused
C9_Witness ==
    /\ po.status = "delivered"
    /\ last.op \in {"approve", "reject"}
    /\ last.result = "InvalidTransition"

\* C10: cancel moves a pending or an approved order to cancelled, with one
\* audit entry and a notification to the creator, and ends with
\* InvalidTransition on an order of any other status.
C10_CancelTransition ==
    [][\A u \in Actors :
          cancel(u) =>
              IF po.status \in {"pending", "approved"}
              THEN /\ po'.status = "cancelled"
                   /\ Len(audit') = Len(audit) + 1
                   /\ Len(notifications') = Len(notifications) + 1
                   /\ notifications'[Len(notifications')].user_id = po.created_by
              ELSE /\ last'.result = "InvalidTransition"
                   /\ po' = po]_vars

\* what has been added to the stock of inventory item i since the start (item
\* i starts with the quantity i)
Stocked(i) == items[i].quantity - i

\* C17: no committed state shows a delivery in part: a delivered order has the
\* quantity of every line added to the inventory, and an approved order has
\* none of them added.
C17_NoPartialDelivery ==
    /\ po.status = "delivered"
          => \A k \in DOMAIN po_items :
                 Stocked(po_items[k].inventory_item_id) = po_items[k].quantity
    /\ po.status = "approved" => \A i \in InvIds : Stocked(i) = 0

\* C19: when the audit trail holds the deliver_po entry of the order, the
\* stock increment of every line was committed before it: each line has its
\* add_stock entry earlier in the trail and its quantity is in the inventory.
C19_StockBeforeDeliveryAudit ==
    \A n \in DOMAIN audit :
        audit[n].action = "deliver_po"
            => \A k \in DOMAIN po_items :
                  /\ \E j \in 1..(n - 1) :
                        /\ audit[j].action = "add_stock"
                        /\ audit[j].record_id = po_items[k].inventory_item_id
                  /\ Stocked(po_items[k].inventory_item_id) = po_items[k].quantity

\* an order of three lines has been delivered and its entry written
C19_Witness ==
    /\ last = Call("mark_delivered", "ok")
    /\ Len(po_items) = MaxLines
    /\ audit[Len(audit)].action = "deliver_po"

\* C20: every successful approve, reject and mark_delivered creates a
\* notification addressed to the user who created the order.
C20_NotifiesCreator ==
    [][\A u \in Actors :
          ((approve(u) \/ reject(u) \/ mark_delivered(u)) /\ last'.result = "ok")
              => /\ Len(notifications') = Len(notifications) + 1
                 /\ notifications'[Len(notifications')].user_id = po.created_by]_vars

-----------------------------------------------------------------------------
(* PurchaseOrder.add_item / remove_item.  Prices are amounts in cents, so    *)
(* quantity * unit_price and the sum are exact.  A new line gets the next    *)
(* primary key of purchase_order_items.                                      *)

\* largest unit price a caller passes, in cents
MaxPrice == 1

\* the next primary key: one more than the largest key of the rows
NextLineId ==
    IF po_items = <<>> THEN 1
    ELSE 1 + (CHOOSE m \in {po_items[k].id : k \in DOMAIN po_items} :
                 \A k \in DOMAIN po_items : po_items[k].id <= m)

\* the lines without the one at index k
Delete(lines, k) == SubSeq(lines, 1, k - 1) \o SubSeq(lines, k + 1, Len(lines))

\* the lines of add_item with no look for an existing line
add_item_lines_always_new(inventory_item_id, quantity, unit_price) ==
    Append(po_items,
           PurchaseOrderItem(NextLineId, inventory_item_id, quantity, unit_price))

\* the lines add_item leaves: the existing line of the inventory item with the
\* quantity added and the unit price overwritten, or one more line
add_item_lines(inventory_item_id, quantity, unit_price) ==
    LET found == {k \in DOMAIN po_items :
                     po_items[k].inventory_item_id = inventory_item_id}
    IN  IF found # {}
        THEN LET k == CHOOSE x \in found : \A y \in found : x <= y
             IN  [po_items EXCEPT ![k].quantity = @ + quantity,
                                  ![k].unit_price = unit_price]
        ELSE Append(po_items,
                    PurchaseOrderItem(NextLineId, inventory_item_id, quantity, unit_price))

add_item(inventory_item_id, quantity, unit_price) ==
    LET lines == add_item_lines(inventory_item_id, quantity, unit_price)
    IN  /\ \A k \in DOMAIN lines : lines[k].quantity <= MaxQty /\ lines[k].id <= MaxLines
        /\ po_items' = lines
        /\ po' = [po EXCEPT !.total_amount = calculate_total(lines)]
        /\ last' = Call("add_item", "ok")
        /\ UNCHANGED <<items, users, audit, notifications, seqVars, clock>>

remove_item(item_id) ==
    LET found == {k \in DOMAIN po_items : po_items[k].id = item_id}
    IN  /\ last' = Call("remove_item", "ok")
        /\ UNCHANGED <<items, users, audit, notifications, seqVars, clock>>
        /\ IF found # {}
           THEN LET lines == Delete(po_items, CHOOSE k \in found : TRUE)
                IN  /\ po_items' = lines
                    /\ po' = [po EXCEPT !.total_amount = calculate_total(lines)]
           ELSE UNCHANGED <<po, po_items>>

-----------------------------------------------------------------------------
(* The line-item specification: one order, created pending and without       *)
(* lines, whose lines are added and removed while it is approved or rejected *)

\* the unit prices callers pass: nothing and the largest price
Prices == {0, MaxPrice}
\* the inventory items callers order: the first and the last
LineItems == {1, NumInv}

InitLines ==
    /\ items = [i \in InvIds |->
                  [quantity |-> i, reorder_level |-> DefaultReorderLevel,
                   is_active |-> TRUE]]
    /\ users = InitUsers
    /\ audit = <<>>
    /\ notifications = <<>>
    /\ po_items = <<>>
    /\ po = [id |-> 1, status |-> "pending", total_amount |-> 0,
             approved_by |-> NULL, approved_at |-> NULL, created_by |-> 3]
    /\ purchase_orders = <<>>
    /\ suppliers = <<>>
    /\ held = <<>>
    /\ issued = 0
    /\ clock = March2024
    /\ last = Call("none", "ok")

AddItem ==
    \E i \in LineItems, q \in LineQtys, p \in Prices : add_item(i, q, p)

RemoveItem == \E id \in 1..MaxLines : remove_item(id)

NextLines == AddItem \/ RemoveItem \/ Approve \/ Reject

SpecLines == InitLines /\ [][NextLines]_vars

-----------------------------------------------------------------------------
(* Claims on the line items *)

\* the sum of quantity * unit_price over the first n lines
RECURSIVE LineSum(_, _)
LineSum(lines, n) ==
    IF n = 0 THEN 0
    ELSE LineSum(lines, n - 1) + lines[n].quantity * lines[n].unit_price

\* C11: right after every add_item and every remove_item (a merge that
\* overwrites the unit price and the removal of the last line included) the
\* order's total_amount is the sum of quantity * unit_price over its lines.
C11_TotalMatchesLines ==
    [][(AddItem \/ RemoveItem)
          => po'.total_amount = LineSum(po_items', Len(po_items'))]_vars

\* an add_item has merged into a line of another price beside a second line
C11_Witness ==
    /\ last = Call("add_item", "ok")
    /\ Len(po_items) = 2
    /\ \E k \in DOMAIN po_items :
          po_items[k].quantity = MaxLineQty + 1 /\ po_items[k].unit_price = MaxPrice
    /\ po.total_amount > MaxLineQty

\* C12: add_item and remove_item work on a pending order only: on an order of
\* any other status they fail and leave the lines and total_amount unchanged.
C12_LinesOnlyWhilePending ==
    [][((AddItem \/ RemoveItem) /\ po.status # "pending")
          => /\ last'.result # "ok"
             /\ po_items' = po_items
             /\ po'.total_amount = po.total_amount]_vars

C13_NoDuplicateLines ==
    \A a, b \in DOMAIN po_items :
        a # b => po_items[a].inventory_item_id # po_items[b].inventory_item_id

\* C13: add_item for an inventory item the order already has a line for adds
\* the quantity to that line and creates no line, and no order ever has two
\* lines for one inventory item.
C13_MergesQuantities ==
    /\ []C13_NoDuplicateLines
    /\ [][\A i \in LineItems, q \in LineQtys, p \in Prices :
            (add_item(i, q, p)
                /\ \E k \in DOMAIN po_items : po_items[k].inventory_item_id = i)
              => /\ Len(po_items') = Len(po_items)
                 /\ \A k \in DOMAIN po_items :
                       po_items'[k].quantity =
                           po_items[k].quantity
                             + (IF po_items[k].inventory_item_id = i THEN q ELSE 0)]_vars

\* the only line of the order holds the quantities of two add_item calls
C13_Witness ==
    /\ last = Call("add_item", "ok")
    /\ Len(po_items) = 1
    /\ po_items[1].quantity = MaxLineQty + 1

\* C14: every line of the order has quantity > 0 and unit_price >= 0.
C14_LineRanges ==
    \A k \in DOMAIN po_items :
        po_items[k].quantity > 0 /\ po_items[k].unit_price >= 0

\* C15: every successful mutating call on the order (add_item, remove_item,
\* approve, reject) appends exactly one audit entry, for the order, and the
\* entry of a status change has the new status as its new_value.
C15_OneAuditEntryPerMutation ==
    [][((AddItem \/ RemoveItem \/ Approve \/ Reject)
            /\ last'.result = "ok"
            /\ (po' # po \/ po_items' # po_items))
          => /\ Len(audit') = Len(audit) + 1
             /\ SubSeq(audit', 1, Len(audit)) = audit
             /\ audit'[Len(audit')].table_name = "purchase_orders"
             /\ audit'[Len(audit')].record_id = po.id
             /\ (po'.status # po.status)
                   => audit'[Len(audit')].new_value = po'.status]_vars

-----------------------------------------------------------------------------
(* InventoryService.create_item / update_item / delete_item.  Each commits   *)
(* the change to the item and then calls AuditLog.log_activity, which adds   *)
(* the entry and commits again; stored tells whether that second commit      *)
(* goes through or the store raises.                                         *)

\* log_activity that keeps one entry per record and writes over it
log_activity_per_record(stored, user_id, action, table_name, record_id) ==
    LET entry == AuditLog(user_id, action, table_name, record_id, NULL, NULL)
        same == {k \in DOMAIN audit : /\ audit[k].table_name = table_name
                                      /\ audit[k].record_id = record_id}
    IN  IF ~stored THEN audit
        ELSE IF same = {} THEN Append(audit, entry)
        ELSE [k \in DOMAIN audit |-> IF k \in same THEN entry ELSE audit[k]]

\* AuditLog.log_activity: the trail after the call
log_activity(stored, user_id, action, table_name, record_id) ==
    IF stored
    THEN Append(audit, AuditLog(user_id, action, table_name, record_id, NULL, NULL))
    ELSE audit

\* the SKU test of create_item that looks at the active items only
sku_exists_among_active(sku) ==
    \E k \in DOMAIN items : items[k].sku = sku /\ items[k].is_active

\* InventoryItem.query.filter_by(sku=data['sku']).first() finds a row
sku_exists(sku) == \E k \in DOMAIN items : items[k].sku = sku

\* the row create_item inserts
InventoryItem(data) ==
    [sku |-> data.sku, quantity |-> data.quantity,
     reorder_level |-> IF "reorder_level" \in DOMAIN data
                       THEN data.reorder_level ELSE DefaultReorderLevel,
     is_active |-> TRUE]

InventoryService_create_item(data, user_id, stored) ==
    /\ UNCHANGED <<users, notifications, po, po_items, seqVars, clock>>
    /\ Len(audit) < MaxAudit
    /\ IF ~validate_numeric_range(data.quantity, 0)
       THEN /\ last' = Call("create_item", "ValidationError")
            /\ UNCHANGED <<items, audit>>
       ELSE IF sku_exists(data.sku)
       THEN /\ last' = Call("create_item", "DuplicateSKU")
            /\ UNCHANGED <<items, audit>>
       ELSE /\ items' = Append(items, InventoryItem(data))
            /\ audit' = log_activity(stored, user_id, "create_inventory_item",
                                     "inventory_items", Len(items) + 1)
            /\ last' = Call("create_item", IF stored THEN "ok" ELSE "AuditWriteFailed")

\* update_item that also takes the quantity and the sku of data
InventoryService_update_item_any_field(item_id, data, user_id, stored) ==
    /\ UNCHANGED <<users, notifications, po, po_items, seqVars, clock>>
    /\ Len(audit) < MaxAudit
    /\ IF item_id \notin DOMAIN items
       THEN /\ last' = Call("update_item", "NotFound")
            /\ UNCHANGED <<items, audit>>
       ELSE /\ items' = [items EXCEPT ![item_id].reorder_level = data.reorder_level,
                                      ![item_id].quantity = data.quantity,
                                      ![item_id].sku = data.sku]
            /\ audit' = log_activity(stored, user_id, "update_inventory_item",
                                     "inventory_items", item_id)
            /\ last' = Call("update_item", IF stored THEN "ok" ELSE "AuditWriteFailed")

\* data may carry any key; update_item reads name, description, category_id,
\* location_id, unit_price, reorder_level, reorder_quantity, supplier_id and
\* barcode, of which the model keeps reorder_level
InventoryService_update_item(item_id, data, user_id, stored) ==
    /\ UNCHANGED <<users, notifications, po, po_items, seqVars, clock>>
    /\ Len(audit) < MaxAudit
    /\ IF item_id \notin DOMAIN items
       THEN /\ last' = Call("update_item", "NotFound")
            /\ UNCHANGED <<items, audit>>
       ELSE IF ~validate_numeric_range(data.reorder_level, 0)
       THEN /\ last' = Call("update_item", "ValidationError")
            /\ UNCHANGED <<items, audit>>
       ELSE /\ items' = [items EXCEPT ![item_id].reorder_level = data.reorder_level]
            /\ audit' = log_activity(stored, user_id, "update_inventory_item",
                                     "inventory_items", item_id)
            /\ last' = Call("update_item", IF stored THEN "ok" ELSE "AuditWriteFailed")

InventoryService_delete_item(item_id, user_id, stored) ==
    /\ UNCHANGED <<users, notifications, po, po_items, seqVars, clock>>
    /\ Len(audit) < MaxAudit
    /\ IF item_id \notin DOMAIN items
       THEN /\ last' = Call("delete_item", "NotFound")
            /\ UNCHANGED <<items, audit>>
       ELSE /\ items' = [items EXCEPT ![item_id].is_active = FALSE]
            /\ audit' = log_activity(stored, user_id, "delete_inventory_item",
                                     "inventory_items", item_id)
            /\ last' = Call("delete_item", IF stored THEN "ok" ELSE "AuditWriteFailed")

-----------------------------------------------------------------------------
(* The item specification: an empty inventory_items table                    *)

\* the SKUs callers register
Skus == {"SKU-1", "SKU-2"}
\* the quantities and reorder levels callers send
Extremes == {0, MaxQty}

InitItems ==
    /\ items = <<>>
    /\ users = InitUsers
    /\ audit = <<>>
    /\ notifications = <<>>
    /\ po = NoOrder
    /\ po_items = <<>>
    /\ purchase_orders = <<>>
    /\ suppliers = <<>>
    /\ held = <<>>
    /\ issued = 0
    /\ clock = March2024
    /\ last = Call("none", "ok")

CreateItem ==
    \E sku \in Skus, q \in Extremes, u \in Actors, stored \in BOOLEAN :
        InventoryService_create_item([sku |-> sku, quantity |-> q], u, stored)

UpdateItem ==
    \E i \in ItemInputs, level \in Extremes, q \in Extremes, sku \in Skus,
       u \in Actors, stored \in BOOLEAN :
        InventoryService_update_item(
            i, [reorder_level |-> level, quantity |-> q, sku |-> sku], u, stored)

DeleteItem ==
    \E i \in ItemInputs, u \in Actors, stored \in BOOLEAN :
        InventoryService_delete_item(i, u, stored)

NextItems == CreateItem \/ UpdateItem \/ DeleteItem

SpecItems == InitItems /\ [][NextItems]_vars

-----------------------------------------------------------------------------
(* Claims on the audit trail of the items *)

\* C16: a mutation and its audit entry are all-or-nothing: when a create,
\* update or deactivate call has not written its audit entry, the
\* inventory_items table is as it was before the call.
C16_MutationWithAudit ==
    [][((CreateItem \/ UpdateItem \/ DeleteItem) /\ audit' = audit)
          => items' = items]_vars

\* C31: the audit trail is append-only: no call updates or deletes an entry,
\* so the entries a step finds are, unchanged and in place, the first entries
\* after the step.
C31_AppendOnly ==
    [][/\ Len(audit') >= Len(audit)
       /\ SubSeq(audit', 1, Len(audit)) = audit]_vars

\* an item has been created and then deactivated, each with its entry
C31_Witness ==
    /\ last = Call("delete_item", "ok")
    /\ Len(audit) = 2
    /\ audit[1].action = "create_inventory_item"
    /\ audit[2].action = "delete_inventory_item"
    /\ audit[2].record_id = audit[1].record_id

\* C28: deactivating an item that is already deactivated succeeds and is a
\* no-op: the stored state after the second call is the state after the
\* first, and no row is removed.
C28_DeactivateIdempotent ==
    [][\A i \in ItemInputs, u \in Actors :
          (/\ InventoryService_delete_item(i, u, TRUE)
           /\ i \in DOMAIN items
           /\ ~items[i].is_active)
              => /\ last'.result = "ok"
                 /\ items' = items
                 /\ audit' = audit]_vars

\* C29: create, update and deactivate leave the quantity and the SKU of every
\* existing item as they are (a quantity changes through add_stock and
\* remove_stock only), and no item is removed.
C29_QuantityAndSkuKept ==
    [][\A i \in DOMAIN items :
          /\ i \in DOMAIN items'
          /\ items'[i].quantity = items[i].quantity
          /\ items'[i].sku = items[i].sku]_vars

\* an item created with stock has been updated and deactivated
C29_Witness ==
    /\ last.op = "delete_item"
    /\ \E i \in DOMAIN items :
          /\ ~items[i].is_active
          /\ items[i].quantity = MaxQty
          /\ items[i].reorder_level # DefaultReorderLevel

-----------------------------------------------------------------------------
(* Identifier generation: PurchaseOrder.generate_po_number and               *)
(* Supplier.generate_supplier_code, called by the constructors.  A request   *)
(* constructs objects, which draws their identifiers, and commits them       *)
(* later; created_at is set when the row is inserted.                        *)

Requests == 1..NumRequests

\* format(n, "0{width}d")
RECURSIVE ZeroPad(_, _)
ZeroPad(text, width) ==
    IF Len(text) >= width THEN text ELSE ZeroPad("0" \o text, width)

\* generate_po_number that forgets to add one to the count
generate_po_number_from_count ==
    LET year == Year(clock)
        month == Month(clock)
        count == Cardinality({k \in DOMAIN purchase_orders :
                     /\ Year(purchase_orders[k].created_at) = year
                     /\ Month(purchase_orders[k].created_at) = month})
    IN  "PO-" \o Str(year) \o ZeroPad(Str(month), 2) \o "-" \o ZeroPad(Str(count), 3)

generate_po_number ==
    LET year == Year(clock)
        month == Month(clock)
        count == Cardinality({k \in DOMAIN purchase_orders :
                     /\ Year(purchase_orders[k].created_at) = year
                     /\ Month(purchase_orders[k].created_at) = month})
    IN  "PO-" \o Str(year) \o ZeroPad(Str(month), 2) \o "-" \o ZeroPad(Str(count + 1), 3)

generate_supplier_code ==
    LET year == Year(clock)
        count == Cardinality({k \in DOMAIN suppliers :
                     Year(suppliers[k].created_at) = year})
    IN  "SUP" \o Str(year) \o ZeroPad(Str(count + 1), 3)

Codes(table) ==
    IF table = "purchase_orders"
    THEN {purchase_orders[k].po_number : k \in DOMAIN purchase_orders}
    ELSE {suppliers[k].supplier_code : k \in DOMAIN suppliers}

HeldOf(r, table) == SelectSeq(held[r], LAMBDA o : o.table = table)

\* PurchaseOrder.__init__: the constructor draws the number
PurchaseOrder_init(r) ==
    /\ Len(held[r]) < MaxHeld
    /\ issued < MaxIssued
    /\ issued' = issued + 1
    /\ held' = [held EXCEPT ![r] =
                  Append(@, [table |-> "purchase_orders", code |-> generate_po_number])]
    /\ last' = Call("PurchaseOrder", "ok")
    /\ UNCHANGED <<items, users, audit, notifications, po, po_items,
                   purchase_orders, suppliers, clock>>

\* Supplier.__init__: the constructor draws the code
Supplier_init(r) ==
    /\ Len(held[r]) < MaxHeld
    /\ issued < MaxIssued
    /\ issued' = issued + 1
    /\ held' = [held EXCEPT ![r] =
                  Append(@, [table |-> "suppliers", code |-> generate_supplier_code])]
    /\ last' = Call("Supplier", "ok")
    /\ UNCHANGED <<items, users, audit, notifications, po, po_items,
                   purchase_orders, suppliers, clock>>

\* the unique constraints on po_number and supplier_code
Unique(objs, table) ==
    LET mine == SelectSeq(objs, LAMBDA o : o.table = table)
    IN  /\ \A a, b \in DOMAIN mine : a # b => mine[a].code # mine[b].code
        /\ \A a \in DOMAIN mine : mine[a].code \notin Codes(table)

RECURSIVE Rows(_, _)
Rows(objs, field) ==
    IF objs = <<>> THEN <<>>
    ELSE <<[f \in {field, "created_at"} |->
              IF f = field THEN Head(objs).code ELSE clock]>> \o Rows(Tail(objs), field)

\* db.session.add of the request's objects and db.session.commit
commit(r) ==
    /\ held[r] # <<>>
    /\ held' = [held EXCEPT ![r] = <<>>]
    /\ IF Unique(held[r], "purchase_orders") /\ Unique(held[r], "suppliers")
       THEN /\ purchase_orders' =
                  purchase_orders \o Rows(HeldOf(r, "purchase_orders"), "po_number")
            /\ suppliers' = suppliers \o Rows(HeldOf(r, "suppliers"), "supplier_code")
            /\ last' = Call("commit", "ok")
       ELSE /\ UNCHANGED <<purchase_orders, suppliers>>
            /\ last' = Call("commit", "DuplicateIdentifier")
    /\ UNCHANGED <<items, users, audit, notifications, po, po_items, issued, clock>>

\* the month ends
Tick ==
    /\ clock \in {March2024, December2024}
    /\ clock' = clock + 1
    /\ UNCHANGED <<items, users, audit, notifications, po, po_items, seqVars, last>>

\* the rows k purchase orders created one after the other this month have left
Existing(k) ==
    [n \in 1..k |->
        [po_number |-> "PO-" \o Str(Year(clock)) \o ZeroPad(Str(Month(clock)), 2)
                            \o "-" \o ZeroPad(Str(n), 3),
         created_at |-> clock]]

InitSeq ==
    /\ items = <<>>
    /\ users = InitUsers
    /\ audit = <<>>
    /\ notifications = <<>>
    /\ po = NoOrder
    /\ po_items = <<>>
    /\ clock \in {March2024, December2024}
    /\ \E k \in 0..MaxExisting : purchase_orders = Existing(k)
    /\ suppliers = <<>>
    /\ held = [r \in Requests |-> <<>>]
    /\ issued = 0
    /\ last = Call("none", "ok")

NewPurchaseOrder == \E r \in Requests : PurchaseOrder_init(r)

NewSupplier == \E r \in Requests : Supplier_init(r)

Commit == \E r \in Requests : commit(r)

NextSeq == NewPurchaseOrder \/ NewSupplier \/ Commit \/ Tick

SpecSeq == InitSeq /\ [][NextSeq]_vars

-----------------------------------------------------------------------------
(* Claims on identifier generation *)

\* reading an identifier back: its period key and its ordinal
DigitValue(c) == CHOOSE d \in 0..9 : Digit[d + 1] = c

RECURSIVE ParseNat(_)
ParseNat(text) ==
    IF Len(text) = 0 THEN 0
    ELSE ParseNat(SubSeq(text, 1, Len(text) - 1)) * 10
            + DigitValue(SubSeq(text, Len(text), Len(text)))

\* "PO-YYYYMM-nnn" and "SUPYYYYnnn"
KeyLen(table) == IF table = "purchase_orders" THEN 9 ELSE 7
OrdinalAt(table) == IF table = "purchase_orders" THEN 11 ELSE 8

PeriodKey(table, code) == SubSeq(code, 1, KeyLen(table))
Ordinal(table, code) == ParseNat(SubSeq(code, OrdinalAt(table), Len(code)))

Tables == {"purchase_orders", "suppliers"}

\* C4: identifiers drawn by concurrent requests for one entity type and one
\* period have pairwise distinct ordinals, and the ordinals of the committed
\* rows of a period have no gaps.
C4_ConcurrentDistinct ==
    /\ \A r1, r2 \in Requests :
          r1 # r2 =>
              \A a \in DOMAIN held[r1], b \in DOMAIN held[r2] :
                  (/\ held[r1][a].table = held[r2][b].table
                   /\ PeriodKey(held[r1][a].table, held[r1][a].code)
                        = PeriodKey(held[r2][b].table, held[r2][b].code))
                      => Ordinal(held[r1][a].table, held[r1][a].code)
                            # Ordinal(held[r2][b].table, held[r2][b].code)
    /\ \A t \in Tables :
          \A c \in Codes(t) :
              \A n \in 1..Ordinal(t, c) :
                  \E d \in Codes(t) :
                      PeriodKey(t, d) = PeriodKey(t, c) /\ Ordinal(t, d) = n

\* C5: the ordinals one flow of creations draws for an entity type and a
\* period increase strictly: the ordinal a constructor draws exceeds every
\* ordinal of that period already committed or drawn earlier by the same
\* request and not yet committed.
C5_StrictlyIncreasing ==
    [][\A r \in Requests :
          (PurchaseOrder_init(r) \/ Supplier_init(r)) =>
              LET new == held'[r][Len(held'[r])]
                  key == PeriodKey(new.table, new.code)
              IN  /\ \A c \in Codes(new.table) :
                         PeriodKey(new.table, c) = key
                             => Ordinal(new.table, new.code) > Ordinal(new.table, c)
                  /\ \A a \in DOMAIN held[r] :
                         (held[r][a].table = new.table
                              /\ PeriodKey(new.table, held[r][a].code) = key)
                             => Ordinal(new.table, new.code)
                                   > Ordinal(new.table, held[r][a].code)]_vars

\* C6: a purchase order constructed in year Y and month M while k purchase
\* orders created in that month exist gets "PO-", Y in four digits, M in two
\* digits, "-" and k + 1 padded with zeros to three digits; with six orders
\* in March 2024 that is PO-202403-007.
C6_PoNumberFormat ==
    [][\A r \in Requests :
          PurchaseOrder_init(r) =>
              LET code == held'[r][Len(held'[r])].code
                  k == Cardinality({j \in DOMAIN purchase_orders :
                           /\ Year(purchase_orders[j].created_at) = Year(clock)
                           /\ Month(purchase_orders[j].created_at) = Month(clock)})
              IN  /\ SubSeq(code, 1, 3) = "PO-"
                  /\ ParseNat(SubSeq(code, 4, 7)) = Year(clock)
                  /\ ParseNat(SubSeq(code, 8, 9)) = Month(clock)
                  /\ SubSeq(code, 10, 10) = "-"
                  /\ ParseNat(SubSeq(code, 11, Len(code))) = k + 1
                  /\ (k + 1 < 1000) => Len(code) = 13
                  /\ (Year(clock) = 2024 /\ Month(clock) = 3 /\ k = 6)
                        => code = "PO-202403-007"]_vars

\* the seventh purchase order of March 2024 has drawn its number
C6_Witness ==
    /\ clock = March2024
    /\ Len(purchase_orders) = 6
    /\ \E r \in Requests : \E a \in DOMAIN held[r] : held[r][a].code = "PO-202403-007"

-----------------------------------------------------------------------------
(* InventoryService.add_stock / remove_stock called by concurrent requests.  *)
(* A request reads the item into its own session (InventoryItem.query.get),  *)
(* checks and computes the new quantity from what it read and adds the audit *)
(* entry to the session; its commit then writes that quantity and the entry. *)
(* No lock and no version column orders the read of one request and the      *)
(* commit of another.                                                        *)

StockOps == {"add_stock", "remove_stock"}

\* up to the commit: held[r] holds the row and the entry the session will write
stock_read(r, op, i, quantity, user_id) ==
    /\ held[r] = <<>>
    /\ Len(audit) + Cardinality({x \in Requests : held[x] # <<>>}) < MaxAudit
    /\ UNCHANGED <<items, users, audit, notifications, po, po_items,
                   purchase_orders, suppliers, issued, clock>>
    /\ IF i \notin DOMAIN items
       THEN /\ last' = Call(op, "NotFound")
            /\ UNCHANGED held
       ELSE IF ~validate_numeric_range(quantity, 1)
       THEN /\ last' = Call(op, "ValidationError")
            /\ UNCHANGED held
       ELSE LET res == IF op = "add_stock"
                       THEN add_stock(DB, i, quantity, user_id)
                       ELSE remove_stock(DB, i, quantity, user_id)
            IN  IF ~res.ok
                THEN /\ last' = Call(op, res.err)
                     /\ UNCHANGED held
                ELSE /\ last' = Call(op, "read")
                     /\ held' = [held EXCEPT ![r] =
                                   <<[table |-> "inventory_items", id |-> i,
                                      quantity |-> res.items[i].quantity,
                                      amount |-> quantity,
                                      entry |-> res.audit[Len(res.audit)]]>>]

\* db.session.commit() and what the service does after it
stock_commit(r) ==
    /\ held[r] # <<>>
    /\ LET row == held[r][1]
           op == row.entry.action
           level == items[row.id].reorder_level
       IN  /\ items' = [items EXCEPT ![row.id].quantity = row.quantity]
           /\ audit' = Append(audit, row.entry)
           /\ last' = Call(op, "ok")
           /\ notifications' =
                 IF op = "add_stock"
                 THEN IF stock_restored(row.quantity, row.amount, level)
                      THEN Append(notifications,
                                  Notification(row.entry.user_id, "Stock Restored", "success"))
                      ELSE notifications
                 ELSE IF now_low(row.quantity, level)
                      THEN create_low_stock_notification(notifications, UserIds)
                      ELSE notifications
    /\ held' = [held EXCEPT ![r] = <<>>]
    /\ UNCHANGED <<users, po, po_items, purchase_orders, suppliers, issued, clock>>

InitConc ==
    /\ items = [i \in ItemIds |->
                  [quantity |-> i, reorder_level |-> i, is_active |-> TRUE]]
    /\ users = InitUsers
    /\ audit = <<>>
    /\ notifications = <<>>
    /\ po = NoOrder
    /\ po_items = <<>>
    /\ purchase_orders = <<>>
    /\ suppliers = <<>>
    /\ held = [r \in Requests |-> <<>>]
    /\ issued = 0
    /\ clock = March2024
    /\ last = Call("none", "ok")

ReadStock ==
    \E r \in Requests, op \in StockOps, i \in ItemInputs, q \in QtyInputs, u \in Actors :
        stock_read(r, op, i, q, u)

CommitStock == \E r \in Requests : stock_commit(r)

NextConc == ReadStock \/ CommitStock

SpecConc == InitConc /\ [][NextConc]_vars

-----------------------------------------------------------------------------
(* Claims on concurrent stock movements *)

\* what the first n audit entries say was added to item i, less what they say
\* was removed
RECURSIVE NetMovement(_, _)
NetMovement(i, n) ==
    IF n = 0 THEN 0
    ELSE NetMovement(i, n - 1)
           + (IF audit[n].table_name = "inventory_items" /\ audit[n].record_id = i
              THEN ParseNat(audit[n].new_value) - ParseNat(audit[n].old_value)
              ELSE 0)

\* C18: stock movements are atomic under concurrency: once every call has
\* returned, the quantity of an item is what it started with plus the amounts
\* the successful add_stock calls added less the amounts the successful
\* remove_stock calls removed, and it is never negative.
C18_NoLostUpdate ==
    /\ \A i \in ItemIds : items[i].quantity >= 0
    /\ (\A r \in Requests : held[r] = <<>>)
          => \A i \in ItemIds : Stocked(i) = NetMovement(i, Len(audit))

\* the add_stock and remove_stock entries of item i, oldest first
StockEntries(i) ==
    SelectSeq(audit, LAMBDA e : /\ e.table_name = "inventory_items"
                                /\ e.record_id = i
                                /\ e.action \in StockOps)

\* C36: the audit trail reconstructs the ledger under any interleaving of
\* stock calls: for each item the old_value of a stock entry is the new_value
\* of the stock entry before it, and the new_value of the latest entry is the
\* item's quantity.
C36_AuditReconstructsLedger ==
    \A i \in DOMAIN items :
        LET es == StockEntries(i)
        IN  /\ \A k \in 2..Len(es) : es[k].old_value = es[k - 1].new_value
            /\ es # <<>> => es[Len(es)].new_value = Str(items[i].quantity)

-----------------------------------------------------------------------------
(* The same calls when the store raises on the insert of a notification.     *)
(* failing is the set of users whose notification the store refuses during   *)
(* the call.  Notification.create_notification commits each notification on  *)
(* its own, after the commit of the stock or status change; nothing catches  *)
(* what it raises before the caller of the service or of the order method.   *)

\* Notification.create_low_stock_notification: the loop stops at the first
\* recipient whose insert raises; what it committed before stays
RECURSIVE create_low_stock_notification_until(_, _, _)
create_low_stock_notification_until(ns, ids, failing) ==
    IF ids = {} THEN ns
    ELSE LET u == CHOOSE x \in ids : \A y \in ids : x <= y
         IN  IF users[u].role \notin {"admin", "manager"}
             THEN create_low_stock_notification_until(ns, ids \ {u}, failing)
             ELSE IF u \in failing THEN ns
             ELSE create_low_stock_notification_until(
                      Append(ns, Notification(u, "Low Stock Alert", "warning")),
                      ids \ {u}, failing)

\* the users create_low_stock_notification selects
LowStockRecipients == {u \in UserIds : users[u].role \in {"admin", "manager"}}

\* whether the call gets as far as creating its notification
add_stock_notifies(i, quantity) ==
    /\ i \in DOMAIN items
    /\ validate_numeric_range(quantity, 1)
    /\ stock_restored(items[i].quantity + quantity, quantity, items[i].reorder_level)

remove_stock_notifies(i, quantity) ==
    /\ i \in DOMAIN items
    /\ validate_numeric_range(quantity, 1)
    /\ items[i].quantity >= quantity
    /\ now_low(items[i].quantity - quantity, items[i].reorder_level)

InventoryService_add_stock_dispatch(i, quantity, user_id, failing) ==
    IF add_stock_notifies(i, quantity) /\ user_id \in failing
    THEN LET r == add_stock(DB, i, quantity, user_id)
         IN  /\ Len(audit) < MaxAudit
             /\ r.items[i].quantity <= MaxQty
             /\ items' = r.items
             /\ audit' = r.audit
             /\ last' = Call("add_stock", "DispatchFailed")
             /\ UNCHANGED <<users, notifications, po, po_items, seqVars, clock>>
    ELSE InventoryService_add_stock(i, quantity, user_id)

InventoryService_remove_stock_dispatch(i, quantity, user_id, failing) ==
    IF remove_stock_notifies(i, quantity) /\ LowStockRecipients \cap failing # {}
    THEN LET r == remove_stock(DB, i, quantity, user_id)
         IN  /\ Len(audit) < MaxAudit
             /\ items' = r.items
             /\ audit' = r.audit
             /\ notifications' =
                   create_low_stock_notification_until(notifications, UserIds, failing)
             /\ last' = Call("remove_stock", "DispatchFailed")
             /\ UNCHANGED <<users, po, po_items, seqVars, clock>>
    ELSE InventoryService_remove_stock(i, quantity, user_id)

\* approve whose failing notification takes the approval back
approve_dispatch_undone(approved_by_user_id, failing) ==
    IF can_approve /\ po.created_by \in failing
    THEN /\ last' = Call("approve", "DispatchFailed")
         /\ UNCHANGED <<items, users, audit, notifications, po, po_items, seqVars, clock>>
    ELSE approve(approved_by_user_id)

approve_dispatch(approved_by_user_id, failing) ==
    IF can_approve /\ po.created_by \in failing
    THEN /\ po' = [po EXCEPT !.status = "approved",
                             !.approved_by = approved_by_user_id,
                             !.approved_at = clock]
         /\ audit' = Append(audit,
                       AuditLog(approved_by_user_id, "approve_po", "purchase_orders",
                                po.id, "pending", "approved"))
         /\ last' = Call("approve", "DispatchFailed")
         /\ UNCHANGED <<items, users, notifications, po_items, seqVars, clock>>
    ELSE approve(approved_by_user_id)

reject_dispatch(rejected_by_user_id, failing) ==
    IF can_reject /\ po.created_by \in failing
    THEN /\ po' = [po EXCEPT !.status = "rejected"]
         /\ audit' = Append(audit,
                       AuditLog(rejected_by_user_id, "reject_po", "purchase_orders",
                                po.id, "pending", "rejected"))
         /\ last' = Call("reject", "DispatchFailed")
         /\ UNCHANGED <<items, users, notifications, po_items, seqVars, clock>>
    ELSE reject(rejected_by_user_id)

-----------------------------------------------------------------------------
(* The dispatch specification: the stock of inventory item 1 and one pending *)
(* order, with a store that may refuse the notification of one user          *)

\* the store refuses nobody's notification, or one user's
Failing == {{}} \cup {{u} : u \in UserIds}

InitDispatch ==
    /\ items = [i \in ItemIds |->
                  [quantity |-> 0,
                   reorder_level |-> IF i = 1 THEN 0 ELSE DefaultReorderLevel,
                   is_active |-> TRUE]]
    /\ users = InitUsers
    /\ audit = <<>>
    /\ notifications = <<>>
    /\ po_items = <<>>
    /\ po = [id |-> 1, status |-> "pending", total_amount |-> 0,
             approved_by |-> NULL, approved_at |-> NULL, created_by |-> 3]
    /\ purchase_orders = <<>>
    /\ suppliers = <<>>
    /\ held = <<>>
    /\ issued = 0
    /\ clock = March2024
    /\ last = Call("none", "ok")

AddStockDispatch ==
    \E q \in QtyInputs, u \in Actors, failing \in Failing :
        InventoryService_add_stock_dispatch(1, q, u, failing)

RemoveStockDispatch ==
    \E q \in QtyInputs, u \in Actors, failing \in Failing :
        InventoryService_remove_stock_dispatch(1, q, u, failing)

ApproveDispatch ==
    \E u \in Actors, failing \in Failing : approve_dispatch(u, failing)

RejectDispatch ==
    \E u \in Actors, failing \in Failing : reject_dispatch(u, failing)

NextDispatch ==
    AddStockDispatch \/ RemoveStockDispatch \/ ApproveDispatch \/ RejectDispatch

SpecDispatch == InitDispatch /\ [][NextDispatch]_vars

-----------------------------------------------------------------------------
(* Claims on failing notifications *)

\* C24: a notification that fails never takes the primary write back: after a
\* call that ended with the failure of its notification, the change of the
\* quantity or of the status is committed together with its audit entry.
C24_WriteSurvivesDispatchFailure ==
    [][(last'.result = "DispatchFailed") =>
          /\ Len(audit') = Len(audit) + 1
          /\ SubSeq(audit', 1, Len(audit)) = audit
          /\ LET entry == audit'[Len(audit')]
             IN  IF last'.op \in StockOps
                 THEN /\ entry.action = last'.op
                      /\ items'[entry.record_id].quantity # items[entry.record_id].quantity
                      /\ entry.old_value = Str(items[entry.record_id].quantity)
                      /\ entry.new_value = Str(items'[entry.record_id].quantity)
                 ELSE /\ po.status = "pending"
                      /\ po'.status =
                            (IF last'.op = "approve" THEN "approved" ELSE "rejected")
                      /\ entry.new_value = po'.status]_vars

\* an approval is committed although the notification of the creator failed
C24_Witness ==
    /\ last = Call("approve", "DispatchFailed")
    /\ po.status = "approved"
    /\ audit # <<>>
    /\ audit[Len(audit)].action = "approve_po"

\* C25: a notification that fails is not the failure of the call: a call that
\* has written its change and its audit entry ends with success.
C25_DispatchFailureNotPropagated ==
    [][(audit' # audit) => last'.result = "ok"]_vars

\* C26: the low-stock dispatch serves every recipient on its own: when the
\* notification of one recipient fails, the call does not fail and every other
\* recipient has its notification.
C26_IndependentDelivery ==
    [][\A q \in QtyInputs, u \in Actors, failing \in Failing :
          (/\ InventoryService_remove_stock_dispatch(1, q, u, failing)
           /\ remove_stock_notifies(1, q))
              => /\ last'.result = "ok"
                 /\ \A m \in LowStockRecipients \ failing :
                        Alerts(notifications', Len(notifications), m) # {}]_vars

-----------------------------------------------------------------------------
(* create_item called by concurrent requests: each request tests the SKU,   *)
(* and its session inserts the row at the commit, under the unique          *)
(* constraint of inventory_items.sku                                         *)

\* up to the commit: held[r] holds the row the session will insert
create_item_read(r, data, user_id) ==
    /\ held[r] = <<>>
    /\ UNCHANGED <<items, users, audit, notifications, po, po_items,
                   purchase_orders, suppliers, issued, clock>>
    /\ IF ~validate_numeric_range(data.quantity, 0)
       THEN /\ last' = Call("create_item", "ValidationError")
            /\ UNCHANGED held
       ELSE IF sku_exists(data.sku)
       THEN /\ last' = Call("create_item", "DuplicateSKU")
            /\ UNCHANGED held
       ELSE /\ Len(audit) + Cardinality({x \in Requests : held[x] # <<>>}) < MaxAudit
            /\ last' = Call("create_item", "read")
            /\ held' = [held EXCEPT ![r] =
                          <<[table |-> "inventory_items", row |-> InventoryItem(data),
                             user_id |-> user_id]>>]

\* sku = db.Column(db.String(50), unique=True, nullable=False)
sku_unique(row) == \A k \in DOMAIN items : items[k].sku # row.sku

\* db.session.commit() and what create_item does after it
create_item_commit(r) ==
    /\ held[r] # <<>>
    /\ held' = [held EXCEPT ![r] = <<>>]
    /\ UNCHANGED <<users, notifications, po, po_items, purchase_orders,
                   suppliers, issued, clock>>
    /\ IF ~sku_unique(held[r][1].row)
       THEN /\ last' = Call("create_item", "IntegrityError")
            /\ UNCHANGED <<items, audit>>
       ELSE /\ items' = Append(items, held[r][1].row)
            /\ audit' = log_activity(TRUE, held[r][1].user_id, "create_inventory_item",
                                     "inventory_items", Len(items) + 1)
            /\ last' = Call("create_item", "ok")

InitSku ==
    /\ items = <<>>
    /\ users = InitUsers
    /\ audit = <<>>
    /\ notifications = <<>>
    /\ po = NoOrder
    /\ po_items = <<>>
    /\ purchase_orders = <<>>
    /\ suppliers = <<>>
    /\ held = [r \in Requests |-> <<>>]
    /\ issued = 0
    /\ clock = March2024
    /\ last = Call("none", "ok")

CreateItemRead ==
    \E r \in Requests, sku \in Skus, q \in Extremes, u \in Actors :
        create_item_read(r, [sku |-> sku, quantity |-> q], u)

CreateItemCommit == \E r \in Requests : create_item_commit(r)

NextSku == CreateItemRead \/ CreateItemCommit \/ DeleteItem

SpecSku == InitSku /\ [][NextSku]_vars

\* the SKU is on a row of inventory_items, active or deactivated
Registered(sku) == \E k \in DOMAIN items : items[k].sku = sku

\* C27: a create whose SKU is already registered, on an active or on a
\* deactivated item, fails with DuplicateSKU and creates nothing, and in
\* every reachable state, concurrent creates included, no two items share a
\* SKU.
C27_UniqueSku ==
    /\ [](\A a, b \in DOMAIN items : a # b => items[a].sku # items[b].sku)
    /\ [][/\ last'.op = "create_item"
             => /\ \A r \in Requests :
                      (held'[r] # held[r] /\ held'[r] # <<>>)
                          => ~Registered(held'[r][1].row.sku)
                /\ Len(items') > Len(items)
                      => ~Registered(items'[Len(items')].sku)
          /\ \A sku \in Skus, q \in Extremes, u \in Actors :
                (Registered(sku) /\ held[1] = <<>>
                   /\ create_item_read(1, [sku |-> sku, quantity |-> q], u))
                    => /\ last'.result = "DuplicateSKU"
                       /\ items' = items /\ audit' = audit /\ held' = held]_vars

\* a create with the SKU of the one item, which is deactivated, was refused
C27_Witness ==
    /\ last = Call("create_item", "DuplicateSKU")
    /\ Len(items) = 1
    /\ ~items[1].is_active

-----------------------------------------------------------------------------
(* The order specification: one order from its construction on, with every   *)
(* call PurchaseOrder takes                                                   *)

\* PurchaseOrder(...) with no po_number given: the constructor draws it
InitOrder ==
    /\ items = [i \in InvIds |->
                  [quantity |-> i, reorder_level |-> DefaultReorderLevel,
                   is_active |-> TRUE]]
    /\ users = InitUsers
    /\ audit = <<>>
    /\ notifications = <<>>
    /\ po_items = <<>>
    /\ purchase_orders = <<>>
    /\ suppliers = <<>>
    /\ held = <<>>
    /\ issued = 0
    /\ clock = March2024
    /\ po = [id |-> 1, po_number |-> generate_po_number, status |-> "pending",
             total_amount |-> 0, approved_by |-> NULL, approved_at |-> NULL,
             created_by |-> 3]
    /\ last = Call("PurchaseOrder", "ok")

NextOrder == AddItem \/ RemoveItem \/ Approve \/ Reject \/ Cancel \/ Deliver

SpecOrder == InitOrder /\ [][NextOrder]_vars

\* C32: the order's po_number is the one its constructor drew, and no
\* add_item, remove_item, approve, reject, cancel or mark_delivered call
\* changes it.
C32_NumberKept ==
    /\ [](po.po_number = "PO-202403-001")
    /\ [][po'.po_number = po.po_number]_vars

\* the order has had lines added, been approved and been delivered
C32_Witness ==
    /\ last = Call("mark_delivered", "ok")
    /\ po.status = "delivered"
    /\ po_items # <<>>
    /\ po.po_number = "PO-202403-001"

-----------------------------------------------------------------------------
(* Notification: read / unread toggle and the expiry sweep.  clock is        *)
(* datetime.utcnow().                                                        *)

\* mark_as_read that stamps the row on every call
mark_as_read_always(n, now) == [n EXCEPT !.is_read = TRUE, !.read_at = now]

\* Notification.mark_as_read: the row after the call at time now
mark_as_read(n, now) ==
    IF ~n.is_read THEN [n EXCEPT !.is_read = TRUE, !.read_at = now] ELSE n

\* Notification.mark_as_unread: the row after the call
mark_as_unread(n) == [n EXCEPT !.is_read = FALSE, !.read_at = NULL]

\* the filter of the sweep that also takes the rows expiring right now
expired_by(n, now) == n.expires_at # NULL /\ n.expires_at <= now

\* Notification.expires_at < datetime.utcnow(): no row without expires_at
\* satisfies the comparison
expired(n, now) == n.expires_at # NULL /\ n.expires_at < now

Notification_create_notification(user_id, expires_at) ==
    /\ Len(notifications) < MaxNotifications
    /\ notifications' = Append(notifications,
           [Notification(user_id, "Notice", "info") EXCEPT !.expires_at = expires_at])
    /\ last' = Call("create_notification", "ok")
    /\ UNCHANGED <<items, users, audit, po, po_items, seqVars, clock>>

Notification_mark_as_read(k) ==
    /\ k \in DOMAIN notifications
    /\ notifications' = [notifications EXCEPT ![k] = mark_as_read(@, clock)]
    /\ last' = Call("mark_as_read", "ok")
    /\ UNCHANGED <<items, users, audit, po, po_items, seqVars, clock>>

Notification_mark_as_unread(k) ==
    /\ k \in DOMAIN notifications
    /\ notifications' = [notifications EXCEPT ![k] = mark_as_unread(@)]
    /\ last' = Call("mark_as_unread", "ok")
    /\ UNCHANGED <<items, users, audit, po, po_items, seqVars, clock>>

\* Notification.delete_expired_notifications: the call returns the count
delete_expired_notifications ==
    /\ notifications' = SelectSeq(notifications, LAMBDA n : ~expired(n, clock))
    /\ last' = Call("delete_expired_notifications",
                    Len(SelectSeq(notifications, LAMBDA n : expired(n, clock))))
    /\ UNCHANGED <<items, users, audit, po, po_items, seqVars, clock>>

\* the times the notification specification goes through
Times == March2024..(March2024 + MaxTicks)

InitNotifications ==
    /\ items = <<>>
    /\ users = InitUsers
    /\ audit = <<>>
    /\ notifications = <<>>
    /\ po = NoOrder
    /\ po_items = <<>>
    /\ purchase_orders = <<>>
    /\ suppliers = <<>>
    /\ held = <<>>
    /\ issued = 0
    /\ clock = March2024
    /\ last = Call("none", "ok")

CreateNotification ==
    \E u \in Actors, e \in Times \cup {NULL} : Notification_create_notification(u, e)

MarkAsRead == \E k \in 1..MaxNotifications : Notification_mark_as_read(k)

MarkAsUnread == \E k \in 1..MaxNotifications : Notification_mark_as_unread(k)

DeleteExpired == delete_expired_notifications

\* time passes
Pass ==
    /\ clock < March2024 + MaxTicks
    /\ clock' = clock + 1
    /\ UNCHANGED <<items, users, audit, notifications, po, po_items, seqVars, last>>

NextNotifications ==
    CreateNotification \/ MarkAsRead \/ MarkAsUnread \/ DeleteExpired \/ Pass

SpecNotifications == InitNotifications /\ [][NextNotifications]_vars

\* C34: mark_as_read and mark_as_unread are idempotent: a second call, at any
\* later time, leaves is_read and read_at as the first call left them, and a
\* second mark_as_read keeps the time of the first.
C34_ReadToggleIdempotent ==
    /\ [](\A k \in DOMAIN notifications :
            /\ \A t1 \in Times, t2 \in Times :
                  t1 <= t2 =>
                     /\ mark_as_read(mark_as_read(notifications[k], t1), t2)
                            = mark_as_read(notifications[k], t1)
                     /\ mark_as_read(mark_as_unread(notifications[k]), t1).read_at = t1
            /\ mark_as_unread(mark_as_unread(notifications[k]))
                   = mark_as_unread(notifications[k]))
    /\ [][/\ (last.op = "mark_as_read" /\ last'.op = "mark_as_read"
                 /\ Len(notifications) = 1)
              => notifications' = notifications
          /\ (last.op = "mark_as_unread" /\ last'.op = "mark_as_unread"
                 /\ Len(notifications) = 1)
              => notifications' = notifications]_vars

\* the only notification was marked read a second time, later than the first
C34_Witness ==
    /\ last = Call("mark_as_read", "ok")
    /\ Len(notifications) = 1
    /\ notifications[1].is_read
    /\ notifications[1].read_at < clock

\* the rows among the first k of ns a sweep at time now leaves
RECURSIVE Unexpired(_, _, _)
Unexpired(ns, k, now) ==
    IF k = 0 THEN <<>>
    ELSE IF ns[k].expires_at = NULL \/ ns[k].expires_at >= now
         THEN Append(Unexpired(ns, k - 1, now), ns[k])
         ELSE Unexpired(ns, k - 1, now)

\* C35: the expiry sweep deletes exactly the notifications whose expires_at is
\* set and earlier than the current time and returns how many they are; a
\* notification with no expiry or with an expiry not yet passed stays.
C35_SweepDeletesExpired ==
    [][(last'.op = "delete_expired_notifications" /\ clock' = clock)
          => /\ notifications' = Unexpired(notifications, Len(notifications), clock)
             /\ last'.result = Len(notifications) - Len(notifications')]_vars

\* a sweep has deleted one notification and left one that expires right now
\* and one that never does
C35_Witness ==
    /\ last = Call("delete_expired_notifications", 1)
    /\ \E k \in DOMAIN notifications : notifications[k].expires_at = clock

-----------------------------------------------------------------------------
(* approve, reject and mark_delivered called by concurrent requests on one   *)
(* order.  Each request loads the order, tests its status on what it loaded  *)
(* and goes on; its commit writes the columns it has assigned.               *)

\* the status test of approve, reject or mark_delivered on the loaded order
order_read(r, op, user_id) ==
    /\ held[r] = <<>>
    /\ UNCHANGED <<items, users, audit, notifications, po, po_items,
                   purchase_orders, suppliers, issued, clock>>
    /\ IF po.status # (IF op = "mark_delivered" THEN "approved" ELSE "pending")
       THEN /\ last' = Call(op, "InvalidTransition")
            /\ UNCHANGED held
       ELSE /\ last' = Call(op, "read")
            /\ held' = [held EXCEPT ![r] =
                          <<[table |-> "purchase_orders", op |-> op, user_id |-> user_id]>>]

\* the rest of the method: assignments, add_stock of the lines, audit entry,
\* commits and notification
order_commit(r) ==
    /\ held[r] # <<>>
    /\ held' = [held EXCEPT ![r] = <<>>]
    /\ UNCHANGED <<users, po_items, purchase_orders, suppliers, issued, clock>>
    /\ LET op == held[r][1].op
           user_id == held[r][1].user_id
       IN  CASE op = "approve" ->
                  /\ po' = [po EXCEPT !.status = "approved",
                                      !.approved_by = user_id,
                                      !.approved_at = clock]
                  /\ audit' = Append(audit,
                        AuditLog(user_id, "approve_po", "purchase_orders",
                                 po.id, "pending", "approved"))
                  /\ notifications' = Append(notifications,
                        Notification(po.created_by, "Purchase Order Approved", "info"))
                  /\ last' = Call("approve", "ok")
                  /\ UNCHANGED items
             [] op = "reject" ->
                  /\ po' = [po EXCEPT !.status = "rejected"]
                  /\ audit' = Append(audit,
                        AuditLog(user_id, "reject_po", "purchase_orders",
                                 po.id, "pending", "rejected"))
                  /\ notifications' = Append(notifications,
                        Notification(po.created_by, "Purchase Order Rejected", "warning"))
                  /\ last' = Call("reject", "ok")
                  /\ UNCHANGED items
             [] OTHER ->
                  LET res == deliver_items(DB, po_items, user_id, 0)
                  IN  /\ items' = res.items
                      /\ last' = Call("mark_delivered", res.err)
                      /\ UNCHANGED notifications
                      /\ IF res.ok
                         THEN /\ po' = [po EXCEPT !.status = "delivered"]
                              /\ audit' = Append(res.audit,
                                    AuditLog(user_id, "deliver_po", "purchase_orders",
                                             po.id, "approved", "delivered"))
                         ELSE /\ po' = [po EXCEPT !.status =
                                           IF res.commits > 0 THEN "delivered" ELSE @]
                              /\ audit' = res.audit

OrderOps == {"approve", "reject", "mark_delivered"}

\* a pending order of one line, of the largest quantity, for the first item
InitRace ==
    /\ items = [i \in InvIds |->
                  [quantity |-> i, reorder_level |-> DefaultReorderLevel,
                   is_active |-> TRUE]]
    /\ users = InitUsers
    /\ audit = <<>>
    /\ notifications = <<>>
    /\ po_items = <<PurchaseOrderItem(1, 1, MaxLineQty, 1)>>
    /\ po = [id |-> 1, status |-> "pending", total_amount |-> calculate_total(po_items),
             approved_by |-> NULL, approved_at |-> NULL, created_by |-> 3]
    /\ purchase_orders = <<>>
    /\ suppliers = <<>>
    /\ held = [r \in Requests |-> <<>>]
    /\ issued = 0
    /\ clock = March2024
    /\ last = Call("none", "ok")

ReadOrder == \E r \in Requests, op \in OrderOps, u \in Actors : order_read(r, op, u)

CommitOrder == \E r \in Requests : order_commit(r)

NextRace == ReadOrder \/ CommitOrder

SpecRace == InitRace /\ [][NextRace]_vars

\* the entries of the trail with the action
Entries(action) == {k \in DOMAIN audit : audit[k].action = action}

\* the quantity the lines of the order ask for inventory item i
RECURSIVE Ordered(_, _)
Ordered(i, n) ==
    IF n = 0 THEN 0
    ELSE Ordered(i, n - 1)
           + (IF po_items[n].inventory_item_id = i THEN po_items[n].quantity ELSE 0)

\* C37: whatever the interleaving of mark_delivered calls on the order, the
\* quantity of each line is added to the inventory at most once and the order
\* gets at most one deliver_po entry.
C37_DeliveredOnce ==
    /\ Cardinality(Entries("deliver_po")) <= 1
    /\ \A i \in DOMAIN items : Stocked(i) <= Ordered(i, Len(po_items))

\* C38: of an approve and a reject, or of two approves, racing on the pending
\* order at most one succeeds: the order never has an approve_po and a
\* reject_po entry, nor two approve_po entries, nor status rejected with
\* approved_by set.
C38_OneDecision ==
    /\ Cardinality(Entries("approve_po")) + Cardinality(Entries("reject_po")) <= 1
    /\ ~(po.status = "rejected" /\ po.approved_by # NULL)

\* C39: in every reachable state the order, created pending and without
\* approval fields, has approved_by and approved_at both set when its status
\* is approved or delivered, and both unset when its status is pending or
\* rejected.
C39_ApprovalFields ==
    /\ po.status \in {"approved", "delivered"}
          => po.approved_by # NULL /\ po.approved_at # NULL
    /\ po.status \in {"pending", "rejected"}
          => po.approved_by = NULL /\ po.approved_at = NULL

-----------------------------------------------------------------------------
(* Items from their creation on, with the reorder level the caller gives,    *)
(* through update_item, add_stock and remove_stock                           *)

\* the reorder levels callers send
LevelInputs == {0 - 1, 0, MaxQty}

CreateItemWithLevel ==
    \E sku \in Skus, q \in Extremes, level \in LevelInputs, u \in Actors :
        InventoryService_create_item(
            [sku |-> sku, quantity |-> q, reorder_level |-> level], u, TRUE)

UpdateLevel ==
    \E i \in ItemInputs, level \in LevelInputs, u \in Actors :
        InventoryService_update_item(i, [reorder_level |-> level], u, TRUE)

NextLevels == CreateItemWithLevel \/ UpdateLevel \/ AddStock \/ RemoveStock

SpecLevels == InitItems /\ [][NextLevels]_vars

\* C40: the two low-stock indicators agree on every item reached through
\* create_item, update_item, add_stock and remove_stock: needs_reorder is true
\* exactly when status is low_stock or out_of_stock.
C40_IndicatorsAgree ==
    \A i \in DOMAIN items :
        needs_reorder(items[i].quantity, items[i].reorder_level)
            <=> status(items[i].quantity, items[i].reorder_level)
                    \in {"low_stock", "out_of_stock"}

====
